---- MODULE Spec2Model ----
(***************************************************************************)
(* Digest schedules of the inbox-zero web application: the Schedule table, *)
(* the next-occurrence calculator and the handlers and scripts that read   *)
(* and write schedules, the cron dispatcher of digest jobs and the digest  *)
(* migration.                                                              *)
(*                                                                         *)
(* A timestamp (a JavaScript Date, always read through its UTC getters) is *)
(* a record [day, ms]: whole days since 1970-01-01 and milliseconds since  *)
(* UTC midnight of that day.  A nullable column is <<>> (null) or <<v>>.   *)
(***************************************************************************)
EXTENDS Integers, Sequences, FiniteSets, TLC

VARIABLES
    now,          \* the wall clock, new Date()
    maskPolicy,   \* what the calculator does with a mask that has no bit set
    schedules,    \* the Schedule table: a set of rows
    setup,        \* the running setup-next-occurrence script
    lastCall,     \* the latest call of calculateNextScheduleDate and its result
    response,     \* the latest HTTP request and the status it was answered with
    nextId,       \* the id the next created Schedule row gets
    emailAccount, \* the EmailAccount table: createdAt and the digest flags
    premium,      \* the Premium row of each user, or null
    actions,      \* the Action rows of each rule, in the order of creation
    migration,    \* the running digest migration
    published,    \* the digest jobs the latest dispatcher run put on the queue
    items,        \* the running updateDigestItemsAction
    rollback      \* the running rollbackUserMigration

\* the state of the digest features
digestVars ==
    <<emailAccount, premium, actions, migration, published, items, rollback>>

vars == <<now, maskPolicy, schedules, setup, lastCall, response, nextId,
          digestVars>>

----------------------------------------------------------------------------
(* Bounds of the model.                                                    *)

\* the clock and the stored timestamps lie on days 0..MaxDay
MaxDay == 8

\* rows the Schedule table can hold under Spec
MaxSchedules == 2

----------------------------------------------------------------------------
(* Nullable values and timestamps.                                         *)

Null == <<>>

Some(v) == <<v>>

Date(d, h, m, s, milli) ==
    [day |-> d, ms |-> ((h * 60 + m) * 60 + s) * 1000 + milli]

getUTCHours(t) == t.ms \div 3600000

getUTCMinutes(t) == (t.ms \div 60000) % 60

getUTCSeconds(t) == (t.ms \div 1000) % 60

getUTCMilliseconds(t) == t.ms % 1000

\* 1970-01-01 was a Thursday; 0 = Sunday .. 6 = Saturday
getUTCDay(t) == (t.day + 4) % 7

\* a < b on Dates
Before(a, b) == a.day < b.day \/ (a.day = b.day /\ a.ms < b.ms)

addDays(t, n) == [day |-> t.day + n, ms |-> t.ms]

\* mutant: setUTCHours(hour24, 0, 0, 0), the minute is dropped
createCanonicalHourOnly(hour24, minute) ==
    [day |-> hour24 \div 24, ms |-> (hour24 % 24) * 3600000]

\* new Date("1970-01-01T00:00:00Z") with setUTCHours(hour24, minute, 0, 0);
\* setUTCHours carries an hour of 24 or more into the date
createCanonicalTimeOfDay(hour24, minute) ==
    [day |-> (hour24 * 60 + minute) \div 1440,
     ms  |-> ((hour24 * 60 + minute) % 1440) * 60000]

\* bit 0 = Sunday .. bit 6 = Saturday
DayBitSet(mask, weekday) == (mask \div (2 ^ weekday)) % 2 = 1

HasAnyDay(mask) == \E weekday \in 0..6 : DayBitSet(mask, weekday)

----------------------------------------------------------------------------
(* The next-occurrence calculator, calculateNextScheduleDate of            *)
(* utils/schedule, as section 4.1 of the specification states it.  Its     *)
(* argument is the record of schedule fields its callers pass:             *)
(* [intervalDays, daysOfWeek, timeOfDay, occurrences, lastOccurrenceAt].   *)

\* the date of t at the hour and minute of timeOfDay, seconds and ms zero
setTimeOfDay(t, timeOfDay) ==
    [day |-> t.day,
     ms  |-> (getUTCHours(timeOfDay) * 60 + getUTCMinutes(timeOfDay)) * 60000]

\* what a search for a matching weekday yields when no weekday matches: the
\* weekdays repeat after seven days, so such a search never ends
Unending == [day |-> 0 - 1, ms |-> 0]

\* mutant: a mask without a bit set is searched like any other mask
NeverDegenerate(daysOfWeek) == FALSE

\* a mask without any bit set
IsDegenerateMask(daysOfWeek) ==
    daysOfWeek # Null /\ ~HasAnyDay(daysOfWeek[1])

\* t itself, or the first later date (same time of day) whose weekday bit is
\* set in the mask; all days are allowed when daysOfWeek is null
nextAllowedDay(t, daysOfWeek) ==
    IF daysOfWeek = Null \/ t = Unending
    THEN t
    ELSE LET offsets == {k \in 0..6 :
                           DayBitSet(daysOfWeek[1], getUTCDay(addDays(t, k)))}
         IN  IF offsets = {}
             THEN Unending
             ELSE addDays(t, CHOOSE k \in offsets : \A j \in offsets : k <= j)

\* mutant: the time of day is set, the advance by intervalDays is forgotten
naiveNextNoAdvance(s, at) ==
    LET from == IF s.lastOccurrenceAt = Null THEN at ELSE s.lastOccurrenceAt[1]
    IN  nextAllowedDay(setTimeOfDay(from, s.timeOfDay), s.daysOfWeek)

\* mutant: a schedule never sent starts today instead of intervalDays from now
naiveNextFromToday(s, at) ==
    IF s.lastOccurrenceAt = Null
    THEN nextAllowedDay(setTimeOfDay(at, s.timeOfDay), s.daysOfWeek)
    ELSE nextAllowedDay(setTimeOfDay(addDays(s.lastOccurrenceAt[1],
                                             s.intervalDays), s.timeOfDay),
                        s.daysOfWeek)

\* lastOccurrenceAt (or the current time) advanced by intervalDays days,
\* snapped to timeOfDay, then moved on to an allowed weekday
naiveNext(s, at) ==
    LET from == IF s.lastOccurrenceAt = Null THEN at ELSE s.lastOccurrenceAt[1]
    IN  nextAllowedDay(setTimeOfDay(addDays(from, s.intervalDays), s.timeOfDay),
                       s.daysOfWeek)

\* mutant: a candidate in the past is rolled forward by one interval only
ensureFutureOnce(candidate, s, at) ==
    IF candidate = Unending \/ Before(at, candidate)
    THEN candidate
    ELSE nextAllowedDay(addDays(candidate, s.intervalDays), s.daysOfWeek)

\* mutant: the roll-forward does not go on to an allowed weekday
RECURSIVE ensureFutureAnyDay(_, _, _)
ensureFutureAnyDay(candidate, s, at) ==
    IF candidate = Unending \/ Before(at, candidate)
    THEN candidate
    ELSE ensureFutureAnyDay(addDays(candidate, s.intervalDays), s, at)

\* mutant: the roll-forward goes day by day instead of interval by interval
RECURSIVE ensureFutureByDay(_, _, _)
ensureFutureByDay(candidate, s, at) ==
    IF candidate = Unending \/ Before(at, candidate)
    THEN candidate
    ELSE ensureFutureByDay(nextAllowedDay(addDays(candidate, 1),
                                          s.daysOfWeek), s, at)

\* a candidate that is not strictly after the current time is rolled forward
\* by further intervals (and on to an allowed weekday)
RECURSIVE ensureFuture(_, _, _)
ensureFuture(candidate, s, at) ==
    IF candidate = Unending \/ Before(at, candidate)
    THEN candidate
    ELSE ensureFuture(nextAllowedDay(addDays(candidate, s.intervalDays),
                                     s.daysOfWeek), s, at)

calculateNextScheduleDate(s, at) ==
    IF s.intervalDays <= 0
    THEN Null
    ELSE IF IsDegenerateMask(s.daysOfWeek)
    THEN IF maskPolicy = "null"
         THEN Null
         ELSE LET everyDay == [s EXCEPT !.daysOfWeek = Null]
              IN  Some(ensureFuture(naiveNext(everyDay, at), everyDay, at))
    ELSE Some(ensureFuture(naiveNext(s, at), s, at))

\* the fields of a Schedule row that the callers hand to the calculator
ScheduleFields(row) ==
    [intervalDays     |-> row.intervalDays,
     daysOfWeek       |-> row.daysOfWeek,
     timeOfDay        |-> row.timeOfDay,
     occurrences      |-> row.occurrences,
     lastOccurrenceAt |-> row.lastOccurrenceAt]

\* the record kept of a call
Call(s, at, result) == Some([input |-> s, at |-> at, result |-> result])

----------------------------------------------------------------------------
(* Users, email accounts and the Schedule table.                           *)

Users == {"u1", "u2"}

Accounts == {"a1", "a2"}

\* EmailAccount.userId
UserOf(a) == IF a = "a1" THEN "u1" ELSE "u2"

\* user.emailAccounts of prisma.user.findUnique({ include: emailAccounts })
emailAccounts(userEmail) == {a \in Accounts : UserOf(a) = userEmail}

IdleSetup == [pc |-> "idle", user |-> "", accounts |-> {}, queue |-> {}]

----------------------------------------------------------------------------
(* scripts/setup-next-occurrence.ts                                        *)

\* the script is started for a user email; an unknown user ends it at once
SetupStart(userEmail) ==
    /\ setup.pc = "idle"
    /\ setup' = IF userEmail \in Users
                THEN [pc |-> "accounts", user |-> userEmail,
                      accounts |-> emailAccounts(userEmail), queue |-> {}]
                ELSE [pc |-> "done", user |-> userEmail, accounts |-> {},
                      queue |-> {}]
    /\ UNCHANGED <<now, maskPolicy, schedules, lastCall, response, nextId,
                   digestVars>>

\* the next email account of the user: findMany of its schedules
SetupNextAccount ==
    /\ setup.pc = "accounts"
    /\ IF setup.accounts = {}
       THEN setup' = [setup EXCEPT !.pc = "done"]
       ELSE \E a \in setup.accounts :
              LET found == {r \in schedules : r.emailAccountId = a}
              IN  setup' = [setup EXCEPT
                                !.pc = IF found = {} THEN "accounts"
                                       ELSE "schedules",
                                !.accounts = setup.accounts \ {a},
                                !.queue = found]
    /\ UNCHANGED <<now, maskPolicy, schedules, lastCall, response, nextId,
                   digestVars>>

\* the rows after prisma.schedule.update({ where: { id }, data: { nextOccurrenceAt } })
UpdateNextOccurrence(rows, id, nextOccurrence) ==
    {IF r.id = id THEN [r EXCEPT !.nextOccurrenceAt = nextOccurrence] ELSE r :
       r \in rows}

\* mutant: a null result ends the script instead of skipping the schedule
SetupScheduleReturnOnNull(schedule, rest) ==
    LET nextOccurrence == calculateNextScheduleDate(ScheduleFields(schedule), now)
        after == [setup EXCEPT !.queue = rest,
                               !.pc = IF rest = {} THEN "accounts"
                                      ELSE "schedules"]
    IN  /\ lastCall' = Call(ScheduleFields(schedule), now, nextOccurrence)
        /\ IF nextOccurrence = Null
           THEN /\ setup' = [setup EXCEPT !.pc = "done", !.accounts = {},
                                           !.queue = {}]
                /\ UNCHANGED schedules
           ELSE /\ schedules' = UpdateNextOccurrence(schedules, schedule.id,
                                                     nextOccurrence)
                /\ setup' = after

\* what the script does with the schedule it read: calculate, skip the
\* schedule when the result is null, else write nextOccurrenceAt
SetupSchedule(schedule, rest) ==
    LET nextOccurrence == calculateNextScheduleDate(ScheduleFields(schedule), now)
        after == [setup EXCEPT !.queue = rest,
                               !.pc = IF rest = {} THEN "accounts"
                                      ELSE "schedules"]
    IN  /\ lastCall' = Call(ScheduleFields(schedule), now, nextOccurrence)
        /\ IF nextOccurrence = Null
           THEN /\ setup' = after
                /\ UNCHANGED schedules
           ELSE IF \E r \in schedules : r.id = schedule.id
           THEN /\ schedules' = UpdateNextOccurrence(schedules, schedule.id,
                                                     nextOccurrence)
                /\ setup' = after
           ELSE \* the update of a deleted row throws; main() catches it
                /\ setup' = [setup EXCEPT !.pc = "done", !.accounts = {},
                                           !.queue = {}]
                /\ UNCHANGED schedules

SetupStep ==
    /\ setup.pc = "schedules"
    /\ \E schedule \in setup.queue :
         SetupSchedule(schedule, setup.queue \ {schedule})
    /\ UNCHANGED <<now, maskPolicy, response, nextId, digestVars>>

----------------------------------------------------------------------------
(* app/api/user/digest-schedule: POST creates a schedule of the caller's   *)
(* account, DELETE [id] removes one.                                       *)

NoResponse == [op |-> "none", caller |-> "", id |-> 0, status |-> 0]

\* mutant: the schema accepts every body
SchemaAcceptsAll(body) == TRUE

\* createScheduleSchema: intervalDays and occurrences are positive integers
\* when given, daysOfWeek is null, missing or an integer in 0..127
SchemaAccepts(body) ==
    /\ body.intervalDays = Null \/ body.intervalDays[1] > 0
    /\ body.occurrences = Null \/ body.occurrences[1] > 0
    /\ body.daysOfWeek = Null
       \/ (body.daysOfWeek[1] >= 0 /\ body.daysOfWeek[1] <= 127)

\* parsed.intervalDays || 1
OrOne(field) == IF field = Null \/ field[1] = 0 THEN 1 ELSE field[1]

\* the unique index on (emailAccountId, timeOfDay, intervalDays, daysOfWeek):
\* PostgreSQL holds two nulls to be distinct, so a row whose daysOfWeek is
\* null never collides
UniqueViolation(rows, row) ==
    \E r \in rows :
        /\ r.id # row.id
        /\ r.emailAccountId = row.emailAccountId
        /\ r.timeOfDay = row.timeOfDay
        /\ r.intervalDays = row.intervalDays
        /\ r.daysOfWeek # Null
        /\ r.daysOfWeek = row.daysOfWeek

Post(emailAccountId, body) ==
    LET row == [id               |-> nextId,
                emailAccountId   |-> emailAccountId,
                intervalDays     |-> OrOne(body.intervalDays),
                occurrences      |-> OrOne(body.occurrences),
                daysOfWeek       |-> body.daysOfWeek,
                timeOfDay        |-> body.timeOfDay,
                lastOccurrenceAt |-> Null,
                nextOccurrenceAt |-> Null]
    IN  /\ nextId <= MaxSchedules
        /\ IF SchemaAccepts(body) /\ ~UniqueViolation(schedules, row)
           THEN /\ schedules' = schedules \cup {row}
                /\ nextId' = nextId + 1
                /\ response' = [op |-> "POST", caller |-> emailAccountId,
                                id |-> row.id, status |-> 200]
           ELSE /\ response' = [op |-> "POST", caller |-> emailAccountId,
                                id |-> 0, status |-> 500]
                /\ UNCHANGED <<schedules, nextId>>
        /\ UNCHANGED <<now, maskPolicy, setup, lastCall, digestVars>>

\* mutant: the row exists, whose it is goes unchecked
ExistsOnly(rows, id, emailAccountId) == \E r \in rows : r.id = id

\* the ownership check of DELETE: the row exists and is the caller's
OwnedBy(rows, id, emailAccountId) ==
    \E r \in rows : r.id = id /\ r.emailAccountId = emailAccountId

Delete(emailAccountId, id) ==
    /\ IF OwnedBy(schedules, id, emailAccountId)
       THEN /\ schedules' = {r \in schedules : r.id # id}
            /\ response' = [op |-> "DELETE", caller |-> emailAccountId,
                            id |-> id, status |-> 200]
       ELSE /\ response' = [op |-> "DELETE", caller |-> emailAccountId,
                            id |-> id, status |-> 404]
            /\ UNCHANGED schedules
    /\ UNCHANGED <<now, maskPolicy, setup, lastCall, nextId, digestVars>>

----------------------------------------------------------------------------
(* The values the model draws its inputs from.                             *)

\* milliseconds since midnight of the clock readings
ClockMs == {Date(0, 8, 15, 20, 500).ms, Date(0, 9, 0, 0, 0).ms,
            Date(0, 12, 0, 0, 0).ms}

\* milliseconds since midnight of the stored lastOccurrenceAt values
LastMs == {Date(0, 9, 0, 0, 0).ms, Date(0, 12, 0, 0, 0).ms}

\* the <<hour24, minute>> pairs the canonical timeOfDay values are made from
CanonicalArgs == {<<9, 0>>, <<17, 30>>}

\* timeOfDay values: the canonical ones, and what POST stores for an ISO
\* string with another date, seconds and milliseconds
TimesOfDay ==
    {createCanonicalTimeOfDay(a[1], a[2]) : a \in CanonicalArgs}
        \cup {Date(3, 6, 45, 15, 250)}

Intervals == {0 - 1, 0, 1, 2, 7}

\* null, no day, Monday only, Saturday and Sunday
Masks == {Null, Some(0), Some(2), Some(65)}

Moments == {[day |-> d, ms |-> m] : d \in 0..MaxDay, m \in ClockMs}

\* the lastOccurrenceAt values a row can hold when the script reads the clock
\* at: never sent, or sent on a day up to today.  The server that stored the
\* value and the machine that runs the script read different clocks, so a
\* value of today may lie some hours after at.
LastOccurrences(at) ==
    {Null} \cup {Some(t) : t \in [day : 0..at.day, ms : LastMs]}

\* the default schedule the digest migration creates
DefaultSchedule(id, emailAccountId) ==
    [id               |-> id,
     emailAccountId   |-> emailAccountId,
     intervalDays     |-> 1,
     occurrences      |-> 1,
     daysOfWeek       |-> Null,
     timeOfDay        |-> createCanonicalTimeOfDay(9, 0),
     lastOccurrenceAt |-> Null,
     nextOccurrenceAt |-> Null]

\* the request bodies sent to POST
Bodies ==
    [timeOfDay    : {createCanonicalTimeOfDay(9, 0)},
     intervalDays : {Null, Some(0), Some(7)},
     occurrences  : {Null, Some(0)},
     daysOfWeek   : {Null, Some(2), Some(128)}]

----------------------------------------------------------------------------
(* app/api/resend/digest/all: the cron dispatcher.  GET and POST check the *)
(* cron secret and run sendDigestAllUpdate, which publishes one digest job *)
(* for every email account that has a due schedule.                        *)

\* env.CRON_SECRET
CronSecret == "cron-secret"

\* what a request presents as the secret: nothing, a guess, the secret
Secrets == {"", "guess", CronSecret}

\* hasCronSecret(request) and hasPostCronSecret(request): the request
\* carries the cron secret
hasCronSecret(secret) == secret = CronSecret

\* subDays(now, n)
subDays(t, n) == [day |-> t.day - n, ms |-> t.ms]

\* mutant: a schedule without nextOccurrenceAt counts as due
IsDueOrUnset(s, at) ==
    s.nextOccurrenceAt = Null \/ ~Before(at, s.nextOccurrenceAt[1])

\* where: { nextOccurrenceAt: { lte: now } }; null is never lte
IsDue(s, at) ==
    s.nextOccurrenceAt # Null /\ ~Before(at, s.nextOccurrenceAt[1])

\* isPremium: the user has a Premium row whose lemonSqueezyRenewsAt is later
\* than now or whose stripeSubscriptionStatus is active or trialing
IsPremium(p, at) ==
    /\ p # Null
    /\ \/ /\ p[1].lemonSqueezyRenewsAt # Null
          /\ Before(at, p[1].lemonSqueezyRenewsAt[1])
       \/ p[1].stripeSubscriptionStatus \in {Some("active"), Some("trialing")}

\* isOldEnough: emailAccount.createdAt < subDays(now, 1)
IsOldEnough(createdAt, at) == Before(createdAt, subDays(at, 1))

\* eligibleSchedules: the due schedules of premium users' accounts that are
\* older than one day
EligibleSchedules(at) ==
    {s \in schedules :
        /\ IsDue(s, at)
        /\ IsPremium(premium[UserOf(s.emailAccountId)], at)
        /\ IsOldEnough(emailAccount[s.emailAccountId].createdAt, at)}

\* no job on the queue
NoJobs == [a \in Accounts |-> 0]

\* mutant: one job for every eligible schedule
JobsPerSchedule(eligible, sent) ==
    [a \in Accounts |->
        IF a \in sent
        THEN Cardinality({s \in eligible : s.emailAccountId = a})
        ELSE 0]

\* emailAccountIds = new Set(eligibleSchedules.map(s => s.emailAccount.id)):
\* one job for each account of the set whose publishToQstashQueue succeeded
JobsPerAccount(eligible, sent) ==
    [a \in Accounts |->
        IF a \in {s.emailAccountId : s \in eligible} /\ a \in sent
        THEN 1 ELSE 0]

\* sendDigestAllUpdate: publishToQstashQueue succeeds for the accounts in
\* sent and throws for the others, which the loop catches and logs
sendDigestAllUpdate(sent) ==
    published' = JobsPerAccount(EligibleSchedules(now), sent)

\* mutant: GET runs the dispatcher whatever the request carries
GetUnchecked(secret) ==
    /\ \E sent \in SUBSET Accounts : sendDigestAllUpdate(sent)
    /\ response' = [op |-> "CRON_GET", caller |-> secret, id |-> 0,
                    status |-> 200]
    /\ UNCHANGED <<now, maskPolicy, schedules, setup, lastCall, nextId,
                   emailAccount, premium, actions, migration,
                   items, rollback>>

\* GET /api/resend/digest/all
CronGet(secret) ==
    /\ IF hasCronSecret(secret)
       THEN /\ \E sent \in SUBSET Accounts : sendDigestAllUpdate(sent)
            /\ response' = [op |-> "CRON_GET", caller |-> secret, id |-> 0,
                            status |-> 200]
       ELSE /\ response' = [op |-> "CRON_GET", caller |-> secret, id |-> 0,
                            status |-> 401]
            /\ UNCHANGED published
    /\ UNCHANGED <<now, maskPolicy, schedules, setup, lastCall, nextId,
                   emailAccount, premium, actions, migration,
                   items, rollback>>

\* POST /api/resend/digest/all
CronPost(secret) ==
    /\ IF hasCronSecret(secret)
       THEN /\ \E sent \in SUBSET Accounts : sendDigestAllUpdate(sent)
            /\ response' = [op |-> "CRON_POST", caller |-> secret, id |-> 0,
                            status |-> 200]
       ELSE /\ response' = [op |-> "CRON_POST", caller |-> secret, id |-> 0,
                            status |-> 401]
            /\ UNCHANGED published
    /\ UNCHANGED <<now, maskPolicy, schedules, setup, lastCall, nextId,
                   emailAccount, premium, actions, migration,
                   items, rollback>>

----------------------------------------------------------------------------
(* scripts/migrate-digest-defaults.ts: the digest migration, started by    *)
(* the script or by the admin endpoint with or without dryRun.             *)

\* completed runs that write, after which no further run is started
MaxRuns == 2

ALL_DIGEST_CATEGORIES ==
    {"TO_REPLY", "NEWSLETTER", "MARKETING", "CALENDAR", "RECEIPT",
     "NOTIFICATION"}

\* the Rule table: two system rules of a1, a system rule and a rule of the
\* user's own of a2
Rules ==
    {[id |-> "r1", emailAccountId |-> "a1", systemType |-> Some("TO_REPLY")],
     [id |-> "r2", emailAccountId |-> "a1", systemType |-> Some("NEWSLETTER")],
     [id |-> "r3", emailAccountId |-> "a2", systemType |-> Some("RECEIPT")],
     [id |-> "r4", emailAccountId |-> "a2", systemType |-> Null]}

RuleIds == {r.id : r \in Rules}

\* a rule without actions
NoActions == [r \in RuleIds |-> <<>>]

\* how many actions of the type a rule has
CountType(acts, type) == Cardinality({i \in 1..Len(acts) : acts[i] = type})

\* hasDigest: rule.actions.some(action => action.type === ActionType.DIGEST)
HasDigest(acts) == \E i \in 1..Len(acts) : acts[i] = "DIGEST"

\* hasCustomActions: an action other than LABEL, ARCHIVE and MOVE_FOLDER
HasCustomActions(acts) ==
    \E i \in 1..Len(acts) : acts[i] \notin {"LABEL", "ARCHIVE", "MOVE_FOLDER"}

\* mutant: the run writes whatever dryRun says
WritesAlways(dryRun) == TRUE

\* if (!dryRun)
Writes(dryRun) == ~dryRun

IdleMigration ==
    [pc |-> "idle", dryRun |-> FALSE, users |-> {}, snapshot |-> NoActions,
     runs |-> 0]

\* the email accounts findMany returns: those with a rule of a digest
\* category (the digestMigrationCompleted filter is commented out)
UsersToMigrate ==
    {a \in Accounts :
        \E r \in Rules : /\ r.emailAccountId = a
                         /\ r.systemType # Null
                         /\ r.systemType[1] \in ALL_DIGEST_CATEGORIES}

\* the rules of the account that get a DIGEST action: for every category
\* the rule of that systemType, unless the rule as findMany read it has a
\* DIGEST action or a custom action
RulesToDigest(a, snapshot) ==
    {r \in Rules :
        /\ r.emailAccountId = a
        /\ r.systemType # Null
        /\ r.systemType[1] \in ALL_DIGEST_CATEGORIES
        /\ ~HasDigest(snapshot[r.id])
        /\ ~HasCustomActions(snapshot[r.id])}

\* migrateUsersToDigestDefaults(dryRun): findMany of the accounts with their
\* rules and the rules' actions
MigrationStart(dryRun) ==
    /\ migration.pc \in {"idle", "done"}
    /\ migration.runs < MaxRuns
    /\ migration' = [migration EXCEPT !.pc = "running", !.dryRun = dryRun,
                                      !.users = UsersToMigrate,
                                      !.snapshot = actions]
    /\ UNCHANGED <<now, maskPolicy, schedules, setup, lastCall, response,
                   nextId, emailAccount, premium, actions, published,
                   items, rollback>>

\* mutant: no schedule is ever found
FindsNoSchedule(a) == FALSE

\* existingSchedule = prisma.schedule.findFirst({ where: { emailAccountId } })
ExistingSchedule(a) == \E s \in schedules : s.emailAccountId = a

\* migrateUserDigestDefaults(user, dryRun): the DIGEST actions, the flags of
\* the account and the default schedule when the account has no schedule
migrateUserDigestDefaults(a, dryRun, snapshot) ==
    IF Writes(dryRun)
    THEN /\ actions' =
              [r \in RuleIds |->
                  IF r \in {x.id : x \in RulesToDigest(a, snapshot)}
                  THEN Append(actions[r], "DIGEST")
                  ELSE actions[r]]
         /\ emailAccount' =
              [emailAccount EXCEPT ![a].digestMigrationCompleted = TRUE,
                                   ![a].coldEmailDigest = TRUE]
         /\ IF ExistingSchedule(a)
            THEN UNCHANGED <<schedules, nextId>>
            ELSE /\ schedules' = schedules \cup {DefaultSchedule(nextId, a)}
                 /\ nextId' = nextId + 1
    ELSE UNCHANGED <<actions, emailAccount, schedules, nextId>>

\* one turn of the loop over the accounts
MigrateUser(a) ==
    /\ migration.pc = "running"
    /\ a \in migration.users
    /\ migrateUserDigestDefaults(a, migration.dryRun, migration.snapshot)
    /\ migration' = [migration EXCEPT !.users = migration.users \ {a}]
    /\ UNCHANGED <<now, maskPolicy, setup, lastCall, response, premium,
                   published,
                   items, rollback>>

\* the loop has ended and the run returns its summary
MigrationEnd ==
    /\ migration.pc = "running"
    /\ migration.users = {}
    /\ migration' = [migration EXCEPT
                        !.pc = "done",
                        !.snapshot = NoActions,
                        !.runs = IF migration.dryRun THEN migration.runs
                                 ELSE migration.runs + 1]
    /\ UNCHANGED <<now, maskPolicy, schedules, setup, lastCall, response,
                   nextId, emailAccount, premium, actions, published,
                   items, rollback>>

----------------------------------------------------------------------------
(* utils/actions/settings: updateDigestScheduleAction writes the schedule  *)
(* of the caller's account, the first one found or a new one.              *)

\* the parsedInput values: weekly schedules as the Schedule entity holds
\* them, with a weekday mask that is null, empty or Monday
ScheduleInputs ==
    [intervalDays : {7},
     daysOfWeek   : {Null, Some(0), Some(2)},
     timeOfDay    : {createCanonicalTimeOfDay(9, 0)},
     occurrences  : {1}]

\* mutant: the write leaves nextOccurrenceAt to be calculated later
ScheduleDataWithoutNext(input, at) ==
    [intervalDays     |-> input.intervalDays,
     daysOfWeek       |-> input.daysOfWeek,
     timeOfDay        |-> input.timeOfDay,
     occurrences      |-> input.occurrences,
     lastOccurrenceAt |-> Some(at),
     nextOccurrenceAt |-> Null]

\* the data of the write: the fields of the input, lastOccurrenceAt: new
\* Date() and nextOccurrenceAt: calculateNextScheduleDate({ ...parsedInput,
\* lastOccurrenceAt: null })
ScheduleData(input, at) ==
    [intervalDays     |-> input.intervalDays,
     daysOfWeek       |-> input.daysOfWeek,
     timeOfDay        |-> input.timeOfDay,
     occurrences      |-> input.occurrences,
     lastOccurrenceAt |-> Some(at),
     nextOccurrenceAt |->
         calculateNextScheduleDate(
             [intervalDays     |-> input.intervalDays,
              daysOfWeek       |-> input.daysOfWeek,
              timeOfDay        |-> input.timeOfDay,
              occurrences      |-> input.occurrences,
              lastOccurrenceAt |-> Null], at)]

\* the row with the id and the account and the data of the write
WrittenRow(id, emailAccountId, data) ==
    [id               |-> id,
     emailAccountId   |-> emailAccountId,
     intervalDays     |-> data.intervalDays,
     occurrences      |-> data.occurrences,
     daysOfWeek       |-> data.daysOfWeek,
     timeOfDay        |-> data.timeOfDay,
     lastOccurrenceAt |-> data.lastOccurrenceAt,
     nextOccurrenceAt |-> data.nextOccurrenceAt]

\* mutant: the update is written over every schedule of the account
UpdateEvery(existing, input) ==
    LET mine == {s \in schedules :
                    s.emailAccountId = existing.emailAccountId}
    IN  /\ schedules' =
              (schedules \ mine)
                  \cup {WrittenRow(s.id, s.emailAccountId,
                                   ScheduleData(input, now)) : s \in mine}
        /\ response' = [op |-> "UPDATE", caller |-> existing.emailAccountId,
                        id |-> existing.id, status |-> 200]

\* prisma.schedule.update({ where: { id: existingSchedule.id }, data }); a
\* write that the unique index rejects throws and the action fails
UpdateExisting(existing, input) ==
    LET row == WrittenRow(existing.id, existing.emailAccountId,
                          ScheduleData(input, now))
    IN  IF UniqueViolation(schedules, row)
        THEN /\ response' = [op |-> "UPDATE",
                             caller |-> existing.emailAccountId,
                             id |-> existing.id, status |-> 500]
             /\ UNCHANGED schedules
        ELSE /\ schedules' = (schedules \ {existing}) \cup {row}
             /\ response' = [op |-> "UPDATE",
                             caller |-> existing.emailAccountId,
                             id |-> existing.id, status |-> 200]

\* updateDigestScheduleAction: findFirst returns any schedule of the account
UpdateDigestSchedule(emailAccountId, input) ==
    LET mine == {s \in schedules : s.emailAccountId = emailAccountId}
    IN  /\ IF mine # {}
           THEN /\ \E existing \in mine : UpdateExisting(existing, input)
                /\ UNCHANGED nextId
           ELSE /\ nextId <= MaxSchedules
                /\ schedules' =
                      schedules
                          \cup {WrittenRow(nextId, emailAccountId,
                                           ScheduleData(input, now))}
                /\ nextId' = nextId + 1
                /\ response' = [op |-> "UPDATE", caller |-> emailAccountId,
                                id |-> nextId, status |-> 200]
        /\ UNCHANGED <<now, maskPolicy, setup, lastCall, digestVars>>

----------------------------------------------------------------------------
(* utils/actions/settings: updateDigestItemsAction.  For every rule of the *)
(* preferences a promise reads the rule with its actions and then, after   *)
(* an await, creates or deletes the DIGEST action; the promises and the    *)
(* update of coldEmailDigest run concurrently.                             *)

\* the actions of a rule after deleteMany({ where: { ruleId, type: DIGEST } })
WithoutDigest(acts) == SelectSeq(acts, LAMBDA type : type # "DIGEST")

IdleItems ==
    [pc |-> "idle", emailAccountId |-> "", reads |-> {}, writes |-> {},
     cold |-> Null]

\* ruleDigestPreferences: the digest of rule r3 switched on or off, alone
\* or together with that of r4
ItemsInputs ==
    {{[ruleId |-> "r3", enabled |-> TRUE]},
     {[ruleId |-> "r3", enabled |-> FALSE]},
     {[ruleId |-> "r3", enabled |-> TRUE],
      [ruleId |-> "r4", enabled |-> FALSE]}}

\* the action starts: one promise for every entry, one for coldEmailDigest
\* when it is given
ItemsStart(emailAccountId, prefs, coldEmailDigest) ==
    /\ items.pc = "idle"
    /\ items' = [pc |-> "running", emailAccountId |-> emailAccountId,
                 reads |-> prefs, writes |-> {}, cold |-> coldEmailDigest]
    /\ UNCHANGED <<now, maskPolicy, schedules, setup, lastCall, response,
                   nextId, emailAccount, premium, actions, migration,
                   published, rollback>>

\* prisma.rule.findUnique({ where: { id, emailAccountId } }) and the choice
\* of the write from the actions it returned
ItemsRead(p) ==
    /\ items.pc = "running"
    /\ p \in items.reads
    /\ LET found == \E r \in Rules :
                        /\ r.id = p.ruleId
                        /\ r.emailAccountId = items.emailAccountId
           hasDigestAction == HasDigest(actions[p.ruleId])
           write ==
               IF ~found THEN {}
               ELSE IF p.enabled /\ ~hasDigestAction
                    THEN {[ruleId |-> p.ruleId, op |-> "create"]}
               ELSE IF ~p.enabled /\ hasDigestAction
                    THEN {[ruleId |-> p.ruleId, op |-> "deleteMany"]}
               ELSE {}
       IN  items' = [items EXCEPT !.reads = items.reads \ {p},
                                  !.writes = items.writes \cup write]
    /\ UNCHANGED <<now, maskPolicy, schedules, setup, lastCall, response,
                   nextId, emailAccount, premium, actions, migration,
                   published, rollback>>

\* prisma.action.create or prisma.action.deleteMany of a promise
ItemsWrite(w) ==
    /\ items.pc = "running"
    /\ w \in items.writes
    /\ actions' =
          [actions EXCEPT
              ![w.ruleId] = IF w.op = "create"
                            THEN Append(actions[w.ruleId], "DIGEST")
                            ELSE WithoutDigest(actions[w.ruleId])]
    /\ items' = [items EXCEPT !.writes = items.writes \ {w}]
    /\ UNCHANGED <<now, maskPolicy, schedules, setup, lastCall, response,
                   nextId, emailAccount, premium, migration, published,
                   rollback>>

\* prisma.emailAccount.update({ data: { coldEmailDigest } })
ItemsCold ==
    /\ items.pc = "running"
    /\ items.cold # Null
    /\ emailAccount' =
          [emailAccount EXCEPT
              ![items.emailAccountId].coldEmailDigest = items.cold[1]]
    /\ items' = [items EXCEPT !.cold = Null]
    /\ UNCHANGED <<now, maskPolicy, schedules, setup, lastCall, response,
                   nextId, premium, actions, migration, published, rollback>>

\* Promise.all has settled and the action returns
ItemsEnd ==
    /\ items.pc = "running"
    /\ items.reads = {}
    /\ items.writes = {}
    /\ items.cold = Null
    /\ items' = IdleItems
    /\ UNCHANGED <<now, maskPolicy, schedules, setup, lastCall, response,
                   nextId, emailAccount, premium, actions, migration,
                   published, rollback>>

----------------------------------------------------------------------------
(* scripts/migrate-digest-defaults.ts: rollbackUserMigration deletes the   *)
(* DIGEST actions of the account's category rules one rule after another   *)
(* and then clears the flags of the account.                               *)

IdleRollback == [pc |-> "idle", userId |-> "", rules |-> {}]

\* findUnique of the account with its rules; an unknown id throws
RollbackStart(userId) ==
    /\ rollback.pc = "idle"
    /\ rollback' =
          IF userId \in Accounts
          THEN [pc |-> "deleting", userId |-> userId,
                rules |-> {r.id : r \in {x \in Rules :
                              /\ x.emailAccountId = userId
                              /\ x.systemType # Null
                              /\ x.systemType[1] \in ALL_DIGEST_CATEGORIES}}]
          ELSE [pc |-> "failed", userId |-> userId, rules |-> {}]
    /\ UNCHANGED <<now, maskPolicy, schedules, setup, lastCall, response,
                   nextId, emailAccount, premium, actions, migration,
                   published, items>>

\* prisma.action.deleteMany for the rule of the next category
RollbackDelete(ruleId) ==
    /\ rollback.pc = "deleting"
    /\ ruleId \in rollback.rules
    /\ actions' = [actions EXCEPT ![ruleId] = WithoutDigest(actions[ruleId])]
    /\ rollback' = [rollback EXCEPT !.rules = rollback.rules \ {ruleId}]
    /\ UNCHANGED <<now, maskPolicy, schedules, setup, lastCall, response,
                   nextId, emailAccount, premium, migration, published,
                   items>>

\* the update of the flags ends the rollback; a failed one has ended
RollbackEnd ==
    /\ \/ /\ rollback.pc = "deleting"
          /\ rollback.rules = {}
          /\ emailAccount' =
                [emailAccount EXCEPT
                    ![rollback.userId].digestMigrationCompleted = FALSE,
                    ![rollback.userId].coldEmailDigest = FALSE]
       \/ /\ rollback.pc = "failed"
          /\ UNCHANGED emailAccount
    /\ rollback' = IdleRollback
    /\ UNCHANGED <<now, maskPolicy, schedules, setup, lastCall, response,
                   nextId, premium, actions, migration, published, items>>

----------------------------------------------------------------------------
(* The tables of the digest features while no dispatcher and no migration  *)
(* runs.                                                                   *)

\* an EmailAccount row created at the timestamp, not yet migrated
NewAccount(createdAt) ==
    [createdAt |-> createdAt, digestMigrationCompleted |-> FALSE,
     coldEmailDigest |-> FALSE]

DigestIdle ==
    /\ emailAccount = [a \in Accounts |-> NewAccount(Date(0, 9, 0, 0, 0))]
    /\ premium = [u \in Users |-> Null]
    /\ actions = NoActions
    /\ migration = IdleMigration
    /\ published = NoJobs
    /\ items = IdleItems
    /\ rollback = IdleRollback

----------------------------------------------------------------------------
(* Spec: the schedule endpoints on an empty table.                         *)

Init ==
    /\ now = [day |-> 0, ms |-> Date(0, 8, 15, 20, 500).ms]
    /\ maskPolicy \in {"null", "everyDay"}
    /\ schedules = {}
    /\ setup = IdleSetup
    /\ lastCall = Null
    /\ response = NoResponse
    /\ nextId = 1
    /\ DigestIdle

Next ==
    \/ \E a \in Accounts, body \in Bodies : Post(a, body)
    \/ \E a \in Accounts, id \in 1..MaxSchedules : Delete(a, id)
    \/ \E a \in Accounts, input \in ScheduleInputs :
          UpdateDigestSchedule(a, input)

Spec == Init /\ [][Next]_vars

----------------------------------------------------------------------------
(* SpecCalc: the setup script run over a table that holds a schedule with  *)
(* any of the sample fields and the migration's default schedule, both     *)
(* waiting for their nextOccurrenceAt.                                     *)

InitCalc ==
    /\ now \in Moments
    /\ maskPolicy \in {"null", "everyDay"}
    /\ \E i \in Intervals, mask \in Masks, timeOfDay \in TimesOfDay,
          last \in LastOccurrences(now) :
         schedules = {[id               |-> 1,
                       emailAccountId   |-> "a1",
                       intervalDays     |-> i,
                       occurrences      |-> 1,
                       daysOfWeek       |-> mask,
                       timeOfDay        |-> timeOfDay,
                       lastOccurrenceAt |-> last,
                       nextOccurrenceAt |-> Null],
                      DefaultSchedule(2, "a1")}
    /\ setup = IdleSetup
    /\ lastCall = Null
    /\ response = NoResponse
    /\ nextId = 3
    /\ DigestIdle

NextCalc ==
    \/ \E userEmail \in Users \cup {"nobody"} : SetupStart(userEmail)
    \/ SetupNextAccount
    \/ SetupStep

SpecCalc == InitCalc /\ [][NextCalc]_vars

----------------------------------------------------------------------------
(* SpecDigest: the cron dispatcher and the digest migration while the      *)
(* clock advances.  Account a1 has two schedules, of which the second is   *)
(* due at 09:00 of the first day, a2 has none; the user of a1 has any of   *)
(* the sample Premium rows and a1 is old or one day old.                   *)

\* the clock starts on FirstDay and stops at the end of LastDay
FirstDay == 2

LastDay == 4

\* the next reading of the clock
ClockAfter(t) ==
    IF \E m \in ClockMs : m > t.ms
    THEN [day |-> t.day,
          ms  |-> CHOOSE m \in ClockMs :
                      m > t.ms /\ \A k \in ClockMs : k > t.ms => m <= k]
    ELSE [day |-> t.day + 1,
          ms  |-> CHOOSE m \in ClockMs : \A k \in ClockMs : m <= k]

\* time passes
Tick ==
    /\ ClockAfter(now).day <= LastDay
    /\ now' = ClockAfter(now)
    /\ UNCHANGED <<maskPolicy, schedules, setup, lastCall, response, nextId,
                   digestVars>>

\* the Premium rows: none, a Lemon Squeezy renewal that lies ahead at first,
\* a Stripe subscription that is active, trialing or canceled
Premiums ==
    {Null,
     Some([lemonSqueezyRenewsAt     |-> Some(Date(FirstDay + 1, 9, 0, 0, 0)),
           stripeSubscriptionStatus |-> Null]),
     Some([lemonSqueezyRenewsAt     |-> Null,
           stripeSubscriptionStatus |-> Some("active")]),
     Some([lemonSqueezyRenewsAt     |-> Null,
           stripeSubscriptionStatus |-> Some("trialing")]),
     Some([lemonSqueezyRenewsAt     |-> Null,
           stripeSubscriptionStatus |-> Some("canceled")])}

\* nextOccurrenceAt of the schedules of a1: not set, or 09:00 of FirstDay
NextOccurrences == {Null, Some(Date(FirstDay, 9, 0, 0, 0))}

\* the actions of rule r1: none, a label and a digest, a custom action
FirstRuleActions == {<<>>, <<"LABEL", "DIGEST">>, <<"REPLY">>}

InitDigest ==
    /\ now = [day |-> FirstDay, ms |-> Date(0, 8, 15, 20, 500).ms]
    /\ maskPolicy = "null"
    /\ \E next1 \in NextOccurrences :
         schedules =
             {[DefaultSchedule(1, "a1") EXCEPT !.nextOccurrenceAt = next1],
              [id               |-> 2,
               emailAccountId   |-> "a1",
               intervalDays     |-> 7,
               occurrences      |-> 1,
               daysOfWeek       |-> Some(2),
               timeOfDay        |-> createCanonicalTimeOfDay(17, 30),
               lastOccurrenceAt |-> Null,
               nextOccurrenceAt |-> Some(Date(FirstDay, 9, 0, 0, 0))]}
    /\ setup = IdleSetup
    /\ lastCall = Null
    /\ response = NoResponse
    /\ nextId = 3
    /\ \E createdAt \in {Date(0, 9, 0, 0, 0), Date(FirstDay - 1, 9, 0, 0, 0)} :
         emailAccount =
             [a \in Accounts |->
                 IF a = "a1" THEN NewAccount(createdAt)
                 ELSE NewAccount(Date(0, 9, 0, 0, 0))]
    /\ \E p \in Premiums :
         premium = [u \in Users |->
                       IF u = UserOf("a1") THEN p
                       ELSE Some([lemonSqueezyRenewsAt     |-> Null,
                                  stripeSubscriptionStatus |-> Some("active")])]
    /\ \E acts \in FirstRuleActions :
         actions = [r \in RuleIds |->
                       CASE r = "r1" -> acts
                         [] r = "r2" -> <<"ARCHIVE">>
                         [] r = "r3" -> <<"LABEL">>
                         [] OTHER    -> <<"REPLY">>]
    /\ migration = IdleMigration
    /\ published = NoJobs
    /\ items = IdleItems
    /\ rollback = IdleRollback

NextDigest ==
    \/ Tick
    \/ \E secret \in Secrets : CronGet(secret)
    \/ \E secret \in Secrets : CronPost(secret)
    \/ \E dryRun \in BOOLEAN : MigrationStart(dryRun)
    \/ \E a \in Accounts : MigrateUser(a)
    \/ MigrationEnd

SpecDigest == InitDigest /\ [][NextDigest]_vars

\* the scheduler calls the dispatcher with the secret again and again while
\* time passes
SpecDigestFair ==
    /\ SpecDigest
    /\ WF_vars(Tick)
    /\ WF_vars(CronGet(CronSecret))

----------------------------------------------------------------------------
(* SpecRace: the digest migration, updateDigestItemsAction and             *)
(* rollbackUserMigration interleaved step by step.  Every rule starts with *)
(* at most one DIGEST action and both accounts have a schedule; the rules  *)
(* of a1 are settled (a DIGEST action, a custom action), the work is on    *)
(* rule r3 of a2.                                                          *)

InitRace ==
    /\ now = [day |-> 0, ms |-> Date(0, 8, 15, 20, 500).ms]
    /\ maskPolicy = "null"
    /\ schedules = {DefaultSchedule(1, "a1"), DefaultSchedule(2, "a2")}
    /\ setup = IdleSetup
    /\ lastCall = Null
    /\ response = NoResponse
    /\ nextId = 3
    /\ emailAccount = [a \in Accounts |-> NewAccount(Date(0, 9, 0, 0, 0))]
    /\ premium = [u \in Users |-> Null]
    /\ \E acts \in {<<"LABEL">>, <<"LABEL", "DIGEST">>} :
         actions = [r \in RuleIds |->
                       CASE r = "r1" -> <<"LABEL", "DIGEST">>
                         [] r = "r2" -> <<"REPLY">>
                         [] r = "r3" -> acts
                         [] OTHER    -> <<"REPLY">>]
    /\ migration = IdleMigration
    /\ published = NoJobs
    /\ items = IdleItems
    /\ rollback = IdleRollback

NextRace ==
    \/ \E dryRun \in BOOLEAN : MigrationStart(dryRun)
    \/ \E a \in Accounts : MigrateUser(a)
    \/ MigrationEnd
    \/ \E a \in Accounts, prefs \in ItemsInputs,
          coldEmailDigest \in {Null, Some(FALSE)} :
          ItemsStart(a, prefs, coldEmailDigest)
    \/ \E p \in items.reads : ItemsRead(p)
    \/ \E w \in items.writes : ItemsWrite(w)
    \/ ItemsCold
    \/ ItemsEnd
    \/ \E userId \in {"a2", "nobody"} : RollbackStart(userId)
    \/ \E ruleId \in RuleIds : RollbackDelete(ruleId)
    \/ RollbackEnd

SpecRace == InitRace /\ [][NextRace]_vars

----------------------------------------------------------------------------
(* The claims.                                                             *)

\* the latest call returned a timestamp
Returned == lastCall # Null /\ lastCall[1].result # Null

\* schedule fields that are structurally valid and constrain the weekday
\* with a mask that has a bit set, or not at all
ValidFields(s) == s.intervalDays >= 1 /\ ~IsDegenerateMask(s.daysOfWeek)

\* C1: for a valid schedule the timestamp calculateNextScheduleDate returns is
\* strictly after lastOccurrenceAt when that is non-null and strictly after
\* the time of the call when it is null; so is the nextOccurrenceAt the setup
\* script writes to the row.
C1_NextAfterLast ==
    /\ Returned =>
         LET c == lastCall[1]
         IN  IF c.input.lastOccurrenceAt = Null
             THEN Before(c.at, c.result[1])
             ELSE Before(c.input.lastOccurrenceAt[1], c.result[1])
    /\ \A r \in schedules :
         r.nextOccurrenceAt # Null /\ r.lastOccurrenceAt # Null
             => Before(r.lastOccurrenceAt[1], r.nextOccurrenceAt[1])

\* C1 witness: the script wrote the row of a schedule whose lastOccurrenceAt
\* lies after the time of the call, and the call before that (or this one)
\* was answered for a schedule never sent.
C1_Witness ==
    /\ Returned
    /\ lastCall[1].input.lastOccurrenceAt # Null
    /\ Before(lastCall[1].at, lastCall[1].input.lastOccurrenceAt[1])
    /\ \E r \in schedules :
         /\ r.lastOccurrenceAt = lastCall[1].input.lastOccurrenceAt
         /\ r.nextOccurrenceAt = lastCall[1].result
    /\ \E r \in schedules :
         r.lastOccurrenceAt = Null /\ r.nextOccurrenceAt # Null

C3_NextAtTimeOfDay ==
    Returned =>
        LET c == lastCall[1]
            t == c.result[1]
        IN  /\ getUTCHours(t) = getUTCHours(c.input.timeOfDay)
            /\ getUTCMinutes(t) = getUTCMinutes(c.input.timeOfDay)
            /\ getUTCSeconds(t) = 0
            /\ getUTCMilliseconds(t) = 0
            /\ t.ms < 86400000
            /\ \A a \in CanonicalArgs :
                 c.input.timeOfDay = createCanonicalTimeOfDay(a[1], a[2])
                     => getUTCHours(t) = a[1] /\ getUTCMinutes(t) = a[2]

\* C3 witness: a timestamp is returned for a canonical 17:30 when the call and
\* lastOccurrenceAt are at other times of day.
C3_Witness ==
    /\ Returned
    /\ lastCall[1].input.timeOfDay = createCanonicalTimeOfDay(17, 30)
    /\ lastCall[1].input.lastOccurrenceAt # Null
    /\ getUTCHours(lastCall[1].input.lastOccurrenceAt[1]) = 12
    /\ getUTCSeconds(lastCall[1].at) = 20
    /\ getUTCHours(lastCall[1].result[1]) = 17
    /\ getUTCMinutes(lastCall[1].result[1]) = 30

\* C4: when daysOfWeek is a mask with a bit set, the UTC weekday of the
\* returned timestamp has its bit set in the mask: a Monday for the mask 2,
\* a Saturday or Sunday for 65.
C4_NextOnAllowedDay ==
    Returned /\ lastCall[1].input.daysOfWeek # Null
             /\ HasAnyDay(lastCall[1].input.daysOfWeek[1]) =>
        LET mask == lastCall[1].input.daysOfWeek[1]
            weekday == getUTCDay(lastCall[1].result[1])
        IN  /\ (mask \div (2 ^ weekday)) % 2 = 1
            /\ mask = 2 => weekday = 1
            /\ mask = 65 => weekday \in {0, 6}

\* C4 witness: Monday only, the naive advancement was not in the future and
\* was rolled forward, and the result is a Monday.
C4_Witness ==
    /\ Returned
    /\ lastCall[1].input.daysOfWeek = Some(2)
    /\ ~Before(lastCall[1].at, naiveNext(lastCall[1].input, lastCall[1].at))
    /\ getUTCDay(lastCall[1].result[1]) = 1

\* the fields of the daily 09:00 schedule never sent
DailyAtNine ==
    [intervalDays     |-> 1,
     daysOfWeek       |-> Null,
     timeOfDay        |-> createCanonicalTimeOfDay(9, 0),
     occurrences      |-> 1,
     lastOccurrenceAt |-> Null]

Weekly ==
    /\ lastCall # Null
    /\ lastCall[1].input.intervalDays = 7
    /\ lastCall[1].input.daysOfWeek = Null
    /\ lastCall[1].input.lastOccurrenceAt # Null

C8_InvalidIntervalSkipped ==
    /\ lastCall # Null /\ lastCall[1].input.intervalDays <= 0
           => lastCall[1].result = Null
    /\ \A r \in schedules :
           r.intervalDays <= 0 => r.nextOccurrenceAt = Null
    /\ setup.pc = "done" =>
           \A r \in schedules :
               r.emailAccountId \in emailAccounts(setup.user)
                   /\ ValidFields(ScheduleFields(r))
               => r.nextOccurrenceAt # Null

\* C8 witness: the script is done, it skipped a schedule with intervalDays <= 0
\* and after that wrote the nextOccurrenceAt of another one.
C8_Witness ==
    /\ setup.pc = "done"
    /\ \E r \in schedules : r.intervalDays <= 0 /\ r.nextOccurrenceAt = Null
    /\ Returned
    /\ \E r \in schedules : r.nextOccurrenceAt = lastCall[1].result

\* C9: daysOfWeek = 0 passes the schema of the create endpoint; for a valid
\* intervalDays the calculator answers such a mask with null or with the
\* result for daysOfWeek = null, never with an unending search.
C9_DegenerateMaskTerminates ==
    /\ SchemaAccepts([timeOfDay |-> createCanonicalTimeOfDay(9, 0),
                      intervalDays |-> Null, occurrences |-> Null,
                      daysOfWeek |-> Some(0)])
    /\ lastCall # Null /\ lastCall[1].input.daysOfWeek = Some(0)
                       /\ lastCall[1].input.intervalDays >= 1 =>
           /\ lastCall[1].result # Some(Unending)
           /\ lastCall[1].result \in
                  {Null,
                   calculateNextScheduleDate(
                       [lastCall[1].input EXCEPT !.daysOfWeek = Null],
                       lastCall[1].at)}

\* C9 witness: a call with daysOfWeek = 0 and a valid intervalDays returned
\* the timestamp of the schedule without mask.
C9_Witness ==
    /\ Returned
    /\ lastCall[1].input.daysOfWeek = Some(0)
    /\ lastCall[1].input.intervalDays >= 1

\* C10: a DELETE removes the row with the given id when that row exists and
\* belongs to the caller's account and answers 200; otherwise it answers 404
\* and leaves the table as it is; a row that leaves the table is removed by a
\* DELETE of its own account.
C10_DeleteOwnOnly ==
    [][/\ (response' # response /\ response'.op = "DELETE") =>
            IF \E r \in schedules :
                   r.id = response'.id /\ r.emailAccountId = response'.caller
            THEN /\ response'.status = 200
                 /\ schedules' = {r \in schedules : r.id # response'.id}
            ELSE /\ response'.status = 404
                 /\ schedules' = schedules
       /\ \A r \in schedules :
            (\A s \in schedules' : s.id # r.id) =>
                /\ response'.op = "DELETE"
                /\ response'.status = 200
                /\ response'.id = r.id
                /\ response'.caller = r.emailAccountId]_vars

\* C10 witness: an account asked to delete a schedule of the other account,
\* was answered 404, and the schedule is still there.
C10_Witness ==
    /\ response.op = "DELETE"
    /\ response.status = 404
    /\ \E r \in schedules :
         r.id = response.id /\ r.emailAccountId # response.caller

\* a request to /api/resend/digest/all has just been answered
CronRequest == response.op \in {"CRON_GET", "CRON_POST"}

\* the step is a run of sendDigestAllUpdate
CronRan ==
    /\ response'.op \in {"CRON_GET", "CRON_POST"}
    /\ response'.status = 200
    /\ <<response', published'>> # <<response, published>>

\* C11: a GET or POST request to /api/resend/digest/all that does not carry
\* the cron secret is answered with 401 and puts no digest job on the queue.
C11_NoSecretNoJobs ==
    [][(/\ response'.op \in {"CRON_GET", "CRON_POST"}
        /\ response'.caller # CronSecret)
          => (response'.status = 401 /\ published' = published)]_vars

\* a request with a guessed secret was refused while a schedule was eligible
C11_Witness ==
    /\ CronRequest
    /\ response.caller = "guess"
    /\ response.status = 401
    /\ EligibleSchedules(now) # {}
    /\ published = NoJobs

\* the step is a step of the migration
MigrationStep == migration' # migration

\* C12: a digest migration run with dryRun = true writes nothing: no step of
\* the run creates an action, changes digestMigrationCompleted or
\* coldEmailDigest of an account or creates a schedule.
C12_DryRunWritesNothing ==
    [][(migration.pc = "running" /\ migration.dryRun /\ MigrationStep)
          => UNCHANGED <<actions, emailAccount, schedules, nextId>>]_vars

\* a dry run has passed account a2, whose rule r3 has no DIGEST action and
\* which has no schedule and is not flagged
C12_Witness ==
    /\ migration.pc = "running"
    /\ migration.dryRun
    /\ "a2" \notin migration.users
    /\ ~HasDigest(actions["r3"])
    /\ ~emailAccount["a2"].digestMigrationCompleted
    /\ ~emailAccount["a2"].coldEmailDigest
    /\ ~\E s \in schedules : s.emailAccountId = "a2"

\* C13: no two Schedule rows have the same (emailAccountId, timeOfDay,
\* intervalDays, daysOfWeek), also when daysOfWeek is null.
C13_UniqueKey ==
    \A r1 \in schedules, r2 \in schedules :
        (/\ r1.emailAccountId = r2.emailAccountId
         /\ r1.timeOfDay = r2.timeOfDay
         /\ r1.intervalDays = r2.intervalDays
         /\ r1.daysOfWeek = r2.daysOfWeek) => r1.id = r2.id

\* C14: one run of sendDigestAllUpdate publishes at most one digest job for
\* an email account, also when several schedules of the account are due.
C14_OneJobPerAccount == \A a \in Accounts : published[a] <= 1

\* a run published one job for a1 while both schedules of a1 are eligible
C14_Witness ==
    /\ CronRequest
    /\ response.status = 200
    /\ published["a1"] = 1
    /\ Cardinality({s \in EligibleSchedules(now) :
                       s.emailAccountId = "a1"}) = 2

\* the premium is active at the time: lemonSqueezyRenewsAt is later, or the
\* Stripe subscription is active or trialing
PremiumActive(p, at) ==
    /\ p # Null
    /\ \/ /\ p[1].lemonSqueezyRenewsAt # Null
          /\ Before(at, p[1].lemonSqueezyRenewsAt[1])
       \/ p[1].stripeSubscriptionStatus = Some("active")
       \/ p[1].stripeSubscriptionStatus = Some("trialing")

\* C15: a run of sendDigestAllUpdate publishes a job for an account only if
\* the account has a schedule whose nextOccurrenceAt is set and not after
\* now, the premium of its user is active and the account was created more
\* than one day before now.
C15_OnlyDuePremiumOld ==
    [][CronRan =>
         \A a \in Accounts :
            published'[a] > 0 =>
              /\ \E s \in schedules :
                    /\ s.emailAccountId = a
                    /\ s.nextOccurrenceAt # Null
                    /\ ~Before(now, s.nextOccurrenceAt[1])
              /\ PremiumActive(premium[UserOf(a)], now)
              /\ Before(emailAccount[a].createdAt,
                        [day |-> now.day - 1, ms |-> now.ms])]_vars

\* a job was published for a1, which has a due schedule and one whose
\* nextOccurrenceAt is not set
C15_Witness ==
    /\ CronRequest
    /\ response.status = 200
    /\ published["a1"] = 1
    /\ \E s \in schedules :
          s.emailAccountId = "a1" /\ s.nextOccurrenceAt = Null
    /\ \E s \in schedules : s.emailAccountId = "a1" /\ IsDue(s, now)

\* the default schedule the migration created for a2 waits for its
\* nextOccurrenceAt; the user of a2 is premium and a2 is older than one day
DefaultPending ==
    /\ now.day < LastDay
    /\ \E s \in schedules :
          s.emailAccountId = "a2" /\ s.nextOccurrenceAt = Null

\* C16: the nextOccurrenceAt of a default schedule the migration created
\* with null is eventually calculated by the cron.
C16_DefaultEventuallyCalculated ==
    DefaultPending
        ~> (\E s \in schedules :
               s.emailAccountId = "a2" /\ s.nextOccurrenceAt # Null)

\* the dispatcher has run with the secret while the default schedule of a2
\* waits, and has published nothing for a2
C16_Witness ==
    /\ DefaultPending
    /\ CronRequest
    /\ response.status = 200
    /\ migration.pc = "done"
    /\ published["a2"] = 0

\* the schedule updateDigestScheduleAction has just written
Written == {s \in schedules : s.id = response.id}

UpdateSucceeded == response.op = "UPDATE" /\ response.status = 200

UpdateStep ==
    /\ response'.op = "UPDATE"
    /\ <<response', schedules'>> # <<response, schedules>>

\* the step writes exactly one schedule of the account, leaves the number of
\* schedules and all other schedules unchanged
WritesOneOf(a) ==
    \E e \in schedules, r \in schedules' :
        /\ e.emailAccountId = a
        /\ r.id = e.id
        /\ r.emailAccountId = a
        /\ r.lastOccurrenceAt = Some(now)
        /\ schedules' = (schedules \ {e}) \cup {r}

\* the step creates exactly one schedule, of the account
CreatesOneFor(a) ==
    \E r \in schedules' :
        /\ r \notin schedules
        /\ r.emailAccountId = a
        /\ \A s \in schedules : s.id # r.id
        /\ schedules' = schedules \cup {r}

\* C18 as stated: updateDigestScheduleAction for an account with schedules
\* leaves their number unchanged and writes exactly one of them, for an
\* account without a schedule it creates exactly one, and schedules of other
\* accounts are unchanged.
C18_WritesExactlyOne ==
    [][UpdateStep =>
         IF \E s \in schedules : s.emailAccountId = response'.caller
         THEN WritesOneOf(response'.caller)
         ELSE CreatesOneFor(response'.caller)]_vars

\* C18: updateDigestScheduleAction for an account with schedules writes
\* exactly one of them when it succeeds and none when the unique index
\* rejects the write, for an account without a schedule it creates exactly
\* one; the number of schedules of an account that had some and the
\* schedules of other accounts are unchanged.
C18_WritesOneOrFails ==
    [][UpdateStep =>
         IF \E s \in schedules : s.emailAccountId = response'.caller
         THEN \/ response'.status = 200 /\ WritesOneOf(response'.caller)
              \/ response'.status = 500 /\ schedules' = schedules
         ELSE response'.status = 200 /\ CreatesOneFor(response'.caller)]_vars

\* the action wrote one of the two schedules of the caller and left the
\* other as POST had stored it
C18_Witness ==
    /\ UpdateSucceeded
    /\ \E s \in schedules, o \in schedules :
          /\ s.id = response.id
          /\ s.emailAccountId = response.caller
          /\ s.lastOccurrenceAt = Some(now)
          /\ o.id # s.id
          /\ o.emailAccountId = response.caller
          /\ o.lastOccurrenceAt = Null

\* the bounds of a stored schedule
WithinBounds(s) ==
    /\ s.intervalDays >= 1
    /\ s.occurrences >= 1
    /\ s.daysOfWeek = Null \/ (s.daysOfWeek[1] >= 0 /\ s.daysOfWeek[1] <= 127)

\* the body violates a bound
OutOfBounds(body) ==
    \/ body.intervalDays # Null /\ body.intervalDays[1] < 1
    \/ body.occurrences # Null /\ body.occurrences[1] < 1
    \/ body.daysOfWeek # Null
         /\ (body.daysOfWeek[1] < 0 \/ body.daysOfWeek[1] > 127)

\* C19: every schedule POST stores has intervalDays >= 1, occurrences >= 1
\* and daysOfWeek null or in 0..127, both 1 when the body leaves them out;
\* a body that violates a bound is answered with an error and no schedule
\* is stored.
C19_PostWithinBounds ==
    /\ [](\A s \in schedules : WithinBounds(s))
    /\ [][response'.op = "POST" =>
            \A body \in Bodies :
                Post(response'.caller, body) =>
                  /\ OutOfBounds(body) =>
                        (response'.status # 200 /\ schedules' = schedules)
                  /\ response'.status = 200 =>
                        \E s \in schedules' :
                            /\ s.id = response'.id
                            /\ s \notin schedules
                            /\ body.intervalDays = Null => s.intervalDays = 1
                            /\ body.occurrences = Null => s.occurrences = 1]_vars

\* POST stored a schedule for a body without intervalDays and occurrences
C19_Witness ==
    /\ response.op = "POST"
    /\ response.status = 200
    /\ \E s \in schedules :
          /\ s.id = response.id
          /\ s.intervalDays = 1
          /\ s.occurrences = 1
          /\ s.daysOfWeek = Some(2)

\* C20: after a migration run that writes has completed, a further run
\* changes no action, no account flag and no schedule.
C20_SecondRunChangesNothing ==
    [][(migration.runs >= 1 /\ MigrationStep)
          => UNCHANGED <<actions, emailAccount, schedules, nextId>>]_vars

\* two runs that write have completed; r3 has one DIGEST action and a2 has
\* one schedule, the default one
C20_Witness ==
    /\ migration.runs = 2
    /\ migration.pc = "done"
    /\ ~migration.dryRun
    /\ CountType(actions["r3"], "DIGEST") = 1
    /\ emailAccount["a2"].digestMigrationCompleted
    /\ Cardinality({s \in schedules : s.emailAccountId = "a2"}) = 1

\* C21: every rule has at most one DIGEST action, whatever the interleaving
\* of the migration, updateDigestItemsAction and rollbackUserMigration.
C21_AtMostOneDigest ==
    \A r \in RuleIds : CountType(actions[r], "DIGEST") <= 1

\* the migration runs on a reading of r3 without a DIGEST action while r3
\* has got one from updateDigestItemsAction
C21_Witness ==
    /\ migration.pc = "running"
    /\ ~migration.dryRun
    /\ "a2" \in migration.users
    /\ ~HasDigest(migration.snapshot["r3"])
    /\ CountType(actions["r3"], "DIGEST") = 1

====
